---- MODULE Spec2Model ----
(***************************************************************************)
(* A model of snapcraft/file_utils.py: the tree replicator                 *)
(* (link_or_copy_tree, create_similar_directory), the default copy         *)
(* strategy (link_or_copy), the content rewriter (replace_in_file,         *)
(* search_and_replace_contents) and the command guard                      *)
(* (requires_command_success), over an explicit model of the POSIX file    *)
(* system calls they make (paths, directories, hard links, symlinks).      *)
(*                                                                         *)
(* A path is a sequence of names; <<>> is the file system root.  The file  *)
(* system `fs` maps every existing canonical path to its directory entry;  *)
(* regular files point at an inode of `inodes`, so that hard links share   *)
(* content and permission bits.  Ownership and timestamps are not          *)
(* modelled: every chown in the source is best-effort.                     *)
(***************************************************************************)
EXTENDS Integers, Sequences, FiniteSets, TLC

VARIABLES
    fs,           \* path -> directory entry (the file system's name space)
    inodes,       \* inode number -> [content, mode, writes]
    fs0,          \* fs when the operation was called
    inodes0,      \* inodes when the operation was called
    args,         \* the arguments of the call under study
    pc,           \* the position of the call
    err,          \* the exception the call raised ("" while none)
    stack,        \* os.walk: directories still to be visited, in order
    root,         \* os.walk: the directory of the current iteration
    directories,  \* the rest of the `for directory in directories` loop
    files,        \* the rest of the `for file_name in files` loop
    calls,        \* history: the calls made so far, in order
    clock         \* history: the number of steps taken

vars == <<fs, inodes, fs0, inodes0, args, pc, err, stack, root, directories,
          files, calls, clock>>

-----------------------------------------------------------------------------
(* Bounds of the model.                                                    *)

\* The longest path the file system accepts (PATH_MAX): a longer one is
\* ENAMETOOLONG.
MaxDepth == 4

\* The number of symbolic links one path resolution follows (ELOOP beyond).
MaxFuel == 3

-----------------------------------------------------------------------------
(* Paths and directory entries.                                            *)

Empty == [x \in {} |-> x]

Front(p) == SubSeq(p, 1, Len(p) - 1)

Last(p) == p[Len(p)]

IsPrefix(p, q) == Len(p) <= Len(q) /\ SubSeq(q, 1, Len(p)) = p

\* os.path.relpath(path, start) for a path below start
relpath(path, start) == SubSeq(path, Len(start) + 1, Len(path))

\* os.path.join(a, b)
join(a, b) == a \o b

DefaultFileMode == "0644"
DefaultDirMode == "0755"

DirN(m) == [kind |-> "dir", mode |-> m, ino |-> 0, target |-> <<>>]
FileN(i) == [kind |-> "file", mode |-> "", ino |-> i, target |-> <<>>]
LinkN(t) == [kind |-> "link", mode |-> "", ino |-> 0, target |-> t]

World(f, i) == [fs |-> f, inodes |-> i]

Ok(w) == [w |-> w, err |-> ""]
Fail(w, e) == [w |-> w, err |-> e]

\* Path resolution.  Every component but the last is followed when it is a
\* symbolic link; the last one only with `follow`.  The result is the
\* canonical path of the entry (which may not exist), or an error.
RECURSIVE Resolve(_, _, _, _), ResolveIn(_, _, _, _, _), ResolveEntry(_, _, _, _)
Resolve(f, p, follow, fuel) ==
    IF p = <<>> THEN [err |-> "", path |-> <<>>]
    ELSE ResolveIn(f, Resolve(f, Front(p), TRUE, fuel), Last(p), follow, fuel)

\* The entry `name` of the resolved directory `par`
ResolveIn(f, par, name, follow, fuel) ==
    IF par.err # "" THEN par
    ELSE IF par.path \notin DOMAIN f
         THEN [err |-> "FileNotFoundError", path |-> <<>>]
    ELSE IF f[par.path].kind # "dir"
         THEN [err |-> "NotADirectoryError", path |-> <<>>]
    ELSE ResolveEntry(f, Append(par.path, name), follow, fuel)

\* The canonical path q itself: over-long (ENAMETOOLONG), a link to follow
\* (ELOOP when too many were followed), or the result
ResolveEntry(f, q, follow, fuel) ==
    IF Len(q) > MaxDepth THEN [err |-> "OSError", path |-> <<>>]
    ELSE IF q \in DOMAIN f /\ f[q].kind = "link" /\ follow
         THEN IF fuel = 0 THEN [err |-> "OSError", path |-> <<>>]
              ELSE Resolve(f, f[q].target, TRUE, fuel - 1)
    ELSE [err |-> "", path |-> q]

StatOf(f, r) ==
    IF r.err # "" THEN r
    ELSE IF r.path \notin DOMAIN f
         THEN [err |-> "FileNotFoundError", path |-> <<>>]
    ELSE r

\* os.stat(p, follow_symlinks=follow): the canonical path, or the error
Stat(f, p, follow) == StatOf(f, Resolve(f, p, follow, MaxFuel))

KindOf(f, r) == IF r.err # "" THEN "none" ELSE f[r.path].kind

\* What os.lstat says the entry at p is
KindAt(f, p) == KindOf(f, Stat(f, p, FALSE))

\* What os.stat says the entry at p is
TypeAt(f, p) == KindOf(f, Stat(f, p, TRUE))

exists(f, p) == TypeAt(f, p) # "none"

isdir(f, p) == TypeAt(f, p) = "dir"

islink(f, p) == KindAt(f, p) = "link"

RealOf(r, p) == IF r.err = "" THEN r.path ELSE p

\* os.path.realpath(p)
realpath(f, p) == RealOf(Resolve(f, p, TRUE, MaxFuel), p)

\* The permission bits os.stat reports for an existing canonical path
ModeAt(w, q) ==
    IF w.fs[q].kind = "file" THEN w.inodes[w.fs[q].ino].mode
    ELSE w.fs[q].mode

NewIno(i) == IF DOMAIN i = {} THEN 1
             ELSE (CHOOSE m \in DOMAIN i : \A k \in DOMAIN i : k <= m) + 1

Remove(f, q) == [x \in DOMAIN f \ {q} |-> f[x]]

Put(f, q, n) == [x \in DOMAIN f \cup {q} |-> IF x = q THEN n ELSE f[x]]

-----------------------------------------------------------------------------
(* The system calls and library functions the source uses.  An operator    *)
(* named XAt or XFrom is the body of X, given what X looked up.            *)

MkdirAt(w, r) ==
    IF r.err # "" THEN Fail(w, r.err)
    ELSE IF r.path \in DOMAIN w.fs THEN Fail(w, "FileExistsError")
    ELSE Ok(World(Put(w.fs, r.path, DirN(DefaultDirMode)), w.inodes))

\* os.mkdir(p)
mkdir(w, p) == MkdirAt(w, Resolve(w.fs, p, FALSE, MaxFuel))

\* makedirs, once mkdir(name) gave m: with exist_ok, an error is dropped
\* when name is a directory
MakeLeafDone(w, m, name) ==
    IF m.err # "" /\ isdir(w.fs, name) THEN Ok(w) ELSE m

\* makedirs, once the parents gave `up`: a FileExistsError of theirs is
\* passed over
MakeLeaf(up, name) ==
    IF up.err \notin {"", "FileExistsError"} THEN up
    ELSE MakeLeafDone(up.w, mkdir(up.w, name), name)

\* os.makedirs(name, exist_ok=True)
RECURSIVE makedirs(_, _)
makedirs(w, name) ==
    IF name = <<>> THEN Ok(w)
    ELSE MakeLeaf(IF Front(name) # <<>> /\ ~exists(w.fs, Front(name))
                  THEN makedirs(w, Front(name)) ELSE Ok(w),
                  name)

ChmodAt(w, r, mode) ==
    IF r.err # "" THEN Fail(w, r.err)
    ELSE IF w.fs[r.path].kind = "file"
         THEN Ok(World(w.fs, [w.inodes EXCEPT ![w.fs[r.path].ino].mode = mode]))
    ELSE Ok(World([w.fs EXCEPT ![r.path].mode = mode], w.inodes))

\* os.chmod(p, mode), following symbolic links
chmod(w, p, mode) == ChmodAt(w, Stat(w.fs, p, TRUE), mode)

CopystatFrom(w, s, dst) ==
    IF s.err # "" THEN Fail(w, s.err) ELSE chmod(w, dst, ModeAt(w, s.path))

\* shutil.copystat(src, dst, follow_symlinks=follow): the permission bits.
\* When both are symbolic links and follow is off, the link itself would
\* be changed, which the platform has no call for: nothing happens.
copystat(w, src, dst, follow) ==
    IF ~follow /\ islink(w.fs, src) /\ islink(w.fs, dst) THEN Ok(w)
    ELSE CopystatFrom(w, Stat(w.fs, src, TRUE), dst)

LinkAt(w, s, d, denied) ==
    IF s.err # "" THEN Fail(w, s.err)
    ELSE IF w.fs[s.path].kind = "dir" THEN Fail(w, "PermissionError")
    ELSE IF d.err # "" THEN Fail(w, d.err)
    ELSE IF d.path \in DOMAIN w.fs THEN Fail(w, "FileExistsError")
    ELSE IF denied THEN Fail(w, "OSError")
    ELSE Ok(World(Put(w.fs, d.path, w.fs[s.path]), w.inodes))

\* os.link(src, dst, follow_symlinks=False); `denied` is the environment
\* refusing the link (EXDEV across devices, EPERM)
link(w, src, dst, denied) ==
    LinkAt(w, Stat(w.fs, src, FALSE), Resolve(w.fs, dst, FALSE, MaxFuel), denied)

UnlinkAt(w, r) ==
    IF r.err # "" THEN Fail(w, r.err)
    ELSE IF w.fs[r.path].kind = "dir" THEN Fail(w, "IsADirectoryError")
    ELSE Ok(World(Remove(w.fs, r.path), w.inodes))

\* os.unlink(p)
unlink(w, p) == UnlinkAt(w, Stat(w.fs, p, FALSE))

SymlinkAt(w, target, d) ==
    IF d.err # "" THEN Fail(w, d.err)
    ELSE IF d.path \in DOMAIN w.fs THEN Fail(w, "FileExistsError")
    ELSE Ok(World(Put(w.fs, d.path, LinkN(target)), w.inodes))

\* os.symlink(target, dst)
symlink(w, target, dst) == SymlinkAt(w, target, Resolve(w.fs, dst, FALSE, MaxFuel))

SameAt(w, x, y) ==
    /\ x.err = "" /\ y.err = ""
    /\ \/ x.path = y.path
       \/ /\ w.fs[x.path].kind = "file" /\ w.fs[y.path].kind = "file"
          /\ w.fs[x.path].ino = w.fs[y.path].ino

\* os.path.samefile, as shutil._samefile uses it (False on any error)
samefile(w, a, b) == SameAt(w, Stat(w.fs, a, TRUE), Stat(w.fs, b, TRUE))

\* A new file at the canonical path q, with a new inode i
CreateFile(w, q, i, content) ==
    World(Put(w.fs, q, FileN(i)),
          [x \in DOMAIN w.inodes \cup {i} |->
              IF x = i THEN [content |-> content, mode |-> DefaultFileMode,
                             writes |-> 1]
              ELSE w.inodes[x]])

\* The inode i truncated and rewritten in place
Rewrite(w, i, content) ==
    World(w.fs, [w.inodes EXCEPT ![i].content = content, ![i].writes = @ + 1])

WriteAt(w, d, content) ==
    IF d.err # "" THEN Fail(w, d.err)
    ELSE IF d.path \notin DOMAIN w.fs
         THEN Ok(CreateFile(w, d.path, NewIno(w.inodes), content))
    ELSE IF w.fs[d.path].kind = "dir" THEN Fail(w, "IsADirectoryError")
    ELSE Ok(Rewrite(w, w.fs[d.path].ino, content))

\* open(dst, 'wb') followed by the write of `content`: an existing file is
\* truncated and rewritten in place, a missing one is created
writefile(w, dst, content) ==
    WriteAt(w, Resolve(w.fs, dst, TRUE, MaxFuel), content)

\* copyfile of a regular file: open(src, 'rb'), then the write
CopyData(w, s, dst) ==
    IF s.err # "" THEN Fail(w, s.err)
    ELSE IF w.fs[s.path].kind = "dir" THEN Fail(w, "IsADirectoryError")
    ELSE writefile(w, dst, w.inodes[w.fs[s.path].ino].content)

\* copyfile of a symbolic link that is not followed: os.readlink, os.symlink
CopyLink(w, s, dst) == symlink(w, w.fs[s.path].target, dst)

\* shutil.copyfile(src, dst, follow_symlinks=follow)
copyfile(w, src, dst, follow) ==
    IF samefile(w, src, dst) THEN Fail(w, "SameFileError")
    ELSE IF ~follow /\ islink(w.fs, src)
         THEN CopyLink(w, Stat(w.fs, src, FALSE), dst)
    ELSE CopyData(w, Stat(w.fs, src, TRUE), dst)

Copy2Stat(c, src, to, follow) ==
    IF c.err # "" THEN c ELSE copystat(c.w, src, to, follow)

Copy2To(w, src, to, follow) ==
    Copy2Stat(copyfile(w, src, to, follow), src, to, follow)

\* shutil.copy2(src, dst, follow_symlinks=follow): into dst when dst is a
\* directory
copy2(w, src, dst, follow) ==
    Copy2To(w, src,
            IF isdir(w.fs, dst) THEN join(dst, <<Last(src)>>) ELSE dst,
            follow)

-----------------------------------------------------------------------------
(* create_similar_directory and link_or_copy.                              *)

CreateSimilarStat(m, source, destination, follow) ==
    IF m.err # "" THEN m ELSE copystat(m.w, source, destination, follow)

CreateSimilarFrom(w, s, source, destination, follow) ==
    IF s.err # "" THEN Fail(w, s.err)
    ELSE CreateSimilarStat(makedirs(w, destination), source, destination,
                           follow)

\* create_similar_directory(source, destination, follow_symlinks): os.stat,
\* os.makedirs, shutil.copystat; the chown in between is best-effort and
\* changes nothing that is modelled
create_similar_directory(w, source, destination, follow) ==
    CreateSimilarFrom(w, Stat(w.fs, source, follow), source, destination,
                      follow)

TryLink(pre, source_path, destination, denied) ==
    IF pre.err # "" THEN pre
    ELSE link(pre.w, source_path, destination, denied)

TryParent(w, source_path, destination, denied) ==
    TryLink(IF ~exists(w.fs, Front(destination))
            THEN create_similar_directory(w, Front(source_path),
                                          Front(destination), FALSE)
            ELSE Ok(w),
            source_path, destination, denied)

\* The try block of link_or_copy: realpath, the parent directory, os.link
link_or_copy_try(w, source, destination, follow, denied) ==
    TryParent(w, IF follow THEN realpath(w.fs, source) ELSE source,
              destination, denied)

\* with suppress(OSError): os.unlink(destination)
UnlinkQuiet(w, u) == IF u.err = "" THEN u.w ELSE w

ExceptDone(w, st) == IF st.err # "" THEN Fail(w, st.err) ELSE Ok(w)

ExceptStat(c, source, follow) ==
    IF c.err # "" THEN c ELSE ExceptDone(c.w, Stat(c.w.fs, source, follow))

\* The except OSError block of link_or_copy: unlink (errors suppressed),
\* copy2, os.stat, the best-effort chown
link_or_copy_except(w, source, destination, follow) ==
    ExceptStat(copy2(UnlinkQuiet(w, unlink(w, destination)), source,
                     destination, follow),
               source, follow)

Copied(e) == [w |-> e.w, err |-> e.err, how |-> "copy"]

LinkOrCopyFrom(t, source, destination, follow) ==
    IF t.err = "" THEN [w |-> t.w, err |-> "", how |-> "link"]
    ELSE Copied(link_or_copy_except(t.w, source, destination, follow))

\* link_or_copy(source, destination, follow_symlinks)
link_or_copy(w, source, destination, follow, denied) ==
    LinkOrCopyFrom(link_or_copy_try(w, source, destination, follow, denied),
                   source, destination, follow)

-----------------------------------------------------------------------------
(* os.walk(top), top-down, not following links, errors ignored.            *)

ListAt(f, r) ==
    IF r.err # "" \/ f[r.path].kind # "dir" THEN {}
    ELSE {Last(q) : q \in {x \in DOMAIN f : x # <<>> /\ Front(x) = r.path}}

\* The names os.scandir(top) lists (none when top cannot be listed)
scandir(f, top) == ListAt(f, Stat(f, top, TRUE))

\* The orders in which a directory listing can come
Perms(S) ==
    {q \in [1..Cardinality(S) -> S] : \A i, j \in DOMAIN q : q[i] = q[j] => i = j}

\* The entries of a listing that entry.is_dir() (following links) accepts
WalkDirs(f, top) == {n \in scandir(f, top) : isdir(f, join(top, <<n>>))}

WalkNonDirs(f, top) == scandir(f, top) \ WalkDirs(f, top)

\* The mistaken walk that follows links (followlinks=True)
WalkEntersLinks(f, top, isTop) == isdir(f, top)

\* Whether the walk steps into `top`: the walk's own top always, a
\* subdirectory unless it is a symbolic link (followlinks=False); a
\* directory that cannot be listed is skipped silently (onerror=None)
WalkEnters(f, top, isTop) ==
    /\ isTop \/ ~islink(f, top)
    /\ isdir(f, top)

Paths(top, names) == [i \in DOMAIN names |-> join(top, <<names[i]>>)]

Call(fn, source, destination, kind, how) ==
    [fn |-> fn, source |-> source, destination |-> destination,
     kind |-> kind, how |-> how]

-----------------------------------------------------------------------------
(* link_or_copy_tree(source_tree, destination_tree), copy_function being   *)
(* link_or_copy.                                                           *)

TreePc(ds, fl) ==
    IF ds # <<>> THEN "dirs" ELSE IF fl # <<>> THEN "files" ELSE "walk"

\* Every step of a call is counted
Tick == clock' = clock + 1

\* The state after a call that gave c
Effect(c) ==
    /\ fs' = c.w.fs
    /\ inodes' = c.w.inodes
    /\ err' = c.err

\* Line 155: create_similar_directory(source_tree, destination_tree) gave c
TreeTop(c) ==
    /\ Effect(c)
    /\ pc' = IF c.err = "" THEN "walk" ELSE "raised"
    /\ stack' = IF c.err = "" THEN <<args.source_tree>> ELSE <<>>
    /\ calls' = Append(calls,
           Call("create_similar_directory", args.source_tree,
                args.destination_tree, KindAt(fs, args.source_tree), ""))

\* The mistaken check that tests the source tree alone
NotADirectorySourceOnly(f, source_tree, destination_tree) ==
    ~isdir(f, source_tree)

\* Lines 146-153: the conditions of the two NotADirectoryError checks
NotADirectory(f, source_tree, destination_tree) ==
    \/ ~isdir(f, source_tree)
    \/ (~isdir(f, destination_tree) /\ exists(f, destination_tree))

\* Lines 146-155: the two NotADirectoryError checks and the creation of
\* the destination tree's top
TreeCheck ==
    /\ Tick
    /\ pc = "start"
    /\ IF NotADirectory(fs, args.source_tree, args.destination_tree)
       THEN /\ pc' = "raised"
            /\ err' = "NotADirectoryError"
            /\ UNCHANGED <<fs, inodes, stack, calls>>
       ELSE TreeTop(create_similar_directory(World(fs, inodes),
                args.source_tree, args.destination_tree, FALSE))
    /\ UNCHANGED <<fs0, inodes0, args, root, directories, files>>

\* Line 157: the next iteration of os.walk(source_tree)
TreeWalk ==
    /\ Tick
    /\ pc = "walk"
    /\ stack # <<>>
    /\ IF ~WalkEnters(fs, Head(stack), Head(stack) = args.source_tree)
       THEN /\ stack' = Tail(stack)
            /\ UNCHANGED <<pc, root, directories, files, calls>>
       ELSE \E ds \in Perms(WalkDirs(fs, Head(stack))),
               fl \in Perms(WalkNonDirs(fs, Head(stack))) :
               /\ root' = Head(stack)
               /\ directories' = ds
               /\ files' = fl
               /\ stack' = Paths(Head(stack), ds) \o Tail(stack)
               /\ pc' = TreePc(ds, fl)
               /\ calls' = Append(calls, Call("walk", Head(stack), <<>>,
                                              KindAt(fs, Head(stack)), ""))
    /\ UNCHANGED <<fs, inodes, fs0, inodes0, args, err>>

\* Line 170: create_similar_directory(source, destination) gave c
TreeMade(c, source, destination) ==
    /\ Effect(c)
    /\ calls' = Append(calls, Call("create_similar_directory", source,
                                   destination, KindAt(fs, source), ""))
    /\ directories' = Tail(directories)
    /\ files' = files
    /\ pc' = IF c.err = "" THEN TreePc(directories', files') ELSE "raised"

\* Lines 159-170: the body of `for directory in directories` for `source`
TreeDirectoryAt(source, destination) ==
    IF islink(fs, source)
    THEN /\ files' = Append(files, Head(directories))
         /\ directories' = Tail(directories)
         /\ pc' = TreePc(directories', files')
         /\ UNCHANGED <<fs, inodes, err, calls>>
    ELSE TreeMade(create_similar_directory(World(fs, inodes), source,
                                           destination, FALSE),
                  source, destination)

\* Lines 158-170: one iteration of `for directory in directories`
TreeDirectory ==
    /\ Tick
    /\ pc = "dirs"
    /\ TreeDirectoryAt(join(root, <<Head(directories)>>),
                       join(args.destination_tree,
                            relpath(join(root, <<Head(directories)>>),
                                    args.source_tree)))
    /\ UNCHANGED <<fs0, inodes0, args, stack, root>>

\* Line 177: copy_function(source, destination) gave c
TreeCopied(c, source, destination) ==
    /\ Effect(c)
    /\ calls' = Append(calls, Call("copy_function", source, destination,
                                   KindAt(fs, source), c.how))
    /\ files' = Tail(files)
    /\ pc' = IF c.err = "" THEN TreePc(<<>>, files') ELSE "raised"

\* Lines 173-177: the body of `for file_name in files` for `source`
TreeFileAt(source, destination, denied) ==
    TreeCopied(link_or_copy(World(fs, inodes), source, destination, FALSE,
                            denied),
               source, destination)

\* Lines 172-177: one iteration of `for file_name in files`; the
\* environment decides whether the hard link is refused
TreeFile ==
    /\ Tick
    /\ pc = "files"
    /\ \E denied \in BOOLEAN :
          TreeFileAt(join(root, <<Head(files)>>),
                     join(args.destination_tree,
                          relpath(join(root, <<Head(files)>>),
                                  args.source_tree)),
                     denied)
    /\ UNCHANGED <<fs0, inodes0, args, stack, root, directories>>

\* The walk is exhausted: link_or_copy_tree returns
TreeReturn ==
    /\ Tick
    /\ pc = "walk"
    /\ stack = <<>>
    /\ pc' = "done"
    /\ UNCHANGED <<fs, inodes, fs0, inodes0, args, err, stack, root,
                   directories, files, calls>>

-----------------------------------------------------------------------------
(* The file systems link_or_copy_tree is called on.                        *)

S == <<"s">>
D == <<"d">>
Missing == <<"x">>

SrcMode == "0750"
DstMode == "0600"

\* The subtrees a source directory `base` may hold: a and b, and below a
\* directory a, a/a and a/b.  A link to `base` below it makes a cycle.
SrcTrees(base) ==
    LET a == join(base, <<"a">>)
        b == join(base, <<"b">>)
        aa == join(a, <<"a">>)
        ab == join(a, <<"b">>)
        below == {x @@ y : x \in {Empty, aa :> FileN(3), aa :> LinkN(base)},
                           y \in {Empty, ab :> FileN(4)}}
        as == {Empty, a :> FileN(1), a :> LinkN(base), a :> LinkN(Missing)}
                \cup {(a :> DirN(SrcMode)) @@ x : x \in below}
        bs == {Empty, b :> FileN(2), b :> LinkN(a)}
    IN  {(base :> DirN(SrcMode)) @@ x @@ y : x \in as, y \in bs}

\* The subtrees a destination directory `base` may hold before the call
DstTrees(base) ==
    LET a == join(base, <<"a">>)
        b == join(base, <<"b">>)
        aa == join(a, <<"a">>)
        ab == join(a, <<"b">>)
        below == {x @@ y : x \in {Empty, aa :> FileN(7), aa :> DirN(DstMode),
                                  aa :> LinkN(b)},
                           y \in {Empty, ab :> FileN(8)}}
        as == {Empty, a :> FileN(5), a :> LinkN(b), a :> LinkN(Missing),
               a :> LinkN(S)}
                \cup {(a :> DirN(DstMode)) @@ x : x \in below}
        bs == {Empty, b :> FileN(6), b :> FileN(5), b :> FileN(1),
               b :> DirN(DstMode)}
    IN  {(base :> DirN(DstMode)) @@ x @@ y : x \in as, y \in bs}

Sources == SrcTrees(S) \cup {Empty, S :> FileN(9)}

Destinations == DstTrees(D) \cup {Empty, D :> FileN(10), D :> LinkN(Missing)}

RootDir == <<>> :> DirN(DefaultDirMode)

UsedInos(f) == {f[p].ino : p \in {q \in DOMAIN f : f[q].kind = "file"}}

\* Inodes 1-4 and 9 are the source's, the others the destination's
InodesOf(f) ==
    [i \in UsedInos(f) |->
        [content |-> i,
         mode |-> IF i \in {1, 2, 3, 4, 9} THEN SrcMode ELSE DstMode,
         writes |-> 0]]

\* Separate trees s and d, or a destination that is the source or lies in it
TreeArgs ==
    {[source_tree |-> S, destination_tree |-> D],
     [source_tree |-> S, destination_tree |-> S],
     [source_tree |-> S, destination_tree |-> join(S, <<"a">>)]}

Init ==
    \E a \in TreeArgs, src \in Sources, dst \in Destinations :
        /\ a.destination_tree # D => dst = Empty
        /\ args = a
        /\ fs = RootDir @@ src @@ dst
        /\ inodes = InodesOf(fs)
        /\ fs0 = fs
        /\ inodes0 = inodes
        /\ pc = "start"
        /\ err = ""
        /\ stack = <<>>
        /\ root = <<>>
        /\ directories = <<>>
        /\ files = <<>>
        /\ calls = <<>>
        /\ clock = 0

Next ==
    \/ TreeCheck
    \/ TreeWalk
    \/ TreeDirectory
    \/ TreeFile
    \/ TreeReturn

Spec == Init /\ [][Next]_vars

Terminal == {"done", "raised"}

\* A call that has neither returned nor raised takes its next step: the
\* program is sequential and nothing suspends it
Running == pc \notin Terminal /\ Tick

TreeFair == Spec /\ WF_clock(Running)

-----------------------------------------------------------------------------
(* Properties of link_or_copy_tree.                                        *)

\* The entries strictly below `top` in f
Below(top, f) == {p \in DOMAIN f : IsPrefix(top, p) /\ p # top}

\* The regular files of the source tree before the call
SrcFiles0 == {p \in Below(args.source_tree, fs0) : fs0[p].kind = "file"}

\* The files and symbolic links of the source tree before the call
SrcNonDirs0 == {p \in Below(args.source_tree, fs0) : fs0[p].kind # "dir"}

\* The path in the destination tree that corresponds to source path p
DstOf(p) == join(args.destination_tree, relpath(p, args.source_tree))

\* The path in the source tree that corresponds to destination path q
SrcOf(q) == join(args.source_tree, relpath(q, args.destination_tree))

\* The entry os.lstat finds is a regular file with the content and mode
\* p had before the call
SameFileAt(p, r) ==
    /\ r.err = ""
    /\ fs[r.path].kind = "file"
    /\ inodes[fs[r.path].ino].content = inodes0[fs0[p].ino].content
    /\ inodes[fs[r.path].ino].mode = inodes0[fs0[p].ino].mode

\* q now is a regular file with the content and mode p had before the call
SameFileAs(p, q) == SameFileAt(p, Stat(fs, q, FALSE))

\* Entry p is what it was before the call, and holds what it held
Intact(p) ==
    /\ p \in DOMAIN fs
    /\ fs[p].kind = fs0[p].kind
    /\ fs[p].target = fs0[p].target
    /\ fs0[p].kind = "file" =>
           inodes[fs[p].ino].content = inodes0[fs0[p].ino].content

\* C1: after link_or_copy_tree returns, the destination tree holds, for
\* every regular file of the source tree, a file at the same relative path
\* with the same content and permission bits, whatever the destination
\* held before.  (TLC refutes this: a directory at the file's destination
\* path receives the file inside it.)
C1_EveryFileCopied ==
    pc = "done" => \A p \in SrcFiles0 : SameFileAs(p, DstOf(p))

\* C2: when the source tree is not a directory, or the destination exists
\* and is not a directory, link_or_copy_tree raises NotADirectoryError
\* with the file system exactly as it was and no copy or directory
\* creation made.
C2_NotADirectoryBeforeMutation ==
    (/\ pc # "start"
     /\ \/ TypeAt(fs0, args.source_tree) # "dir"
        \/ TypeAt(fs0, args.destination_tree) = "file")
    => /\ pc = "raised"
       /\ err = "NotADirectoryError"
       /\ fs = fs0
       /\ inodes = inodes0
       /\ calls = <<>>

\* A call on a source directory and a destination that is a regular file
\* has raised
C2_Witness ==
    /\ pc = "raised"
    /\ TypeAt(fs0, args.source_tree) = "dir"
    /\ SrcFiles0 # {}
    /\ TypeAt(fs0, args.destination_tree) = "file"

\* The entries of the destination tree that have no entry at the same
\* relative path in the source tree, before the call
DstOnly0 ==
    {q \in Below(args.destination_tree, fs0) : SrcOf(q) \notin DOMAIN fs0}

\* C3: an entry that exists in the destination tree only is still there
\* with unchanged content at every point of the call.  (TLC refutes this.)
C3_MergeNotMirror == \A q \in DstOnly0 : Intact(q)

\* The positions in `calls` of the copies of source path p
CopyCalls(p) ==
    {i \in DOMAIN calls :
        calls[i].fn = "copy_function" /\ calls[i].source = p}

\* No directory is created for a symbolic link, the walk steps into none
\* but its own top, nothing is copied twice, and on return every file and
\* symbolic link of the source tree has been copied exactly once
SymlinksAreFiles ==
    /\ \A i \in DOMAIN calls :
          /\ calls[i].fn = "create_similar_directory" =>
                 calls[i].kind # "link"
          /\ (calls[i].fn = "walk" /\ calls[i].source # args.source_tree) =>
                 calls[i].kind # "link"
          /\ calls[i].fn = "copy_function" =>
                 Cardinality(CopyCalls(calls[i].source)) = 1
    /\ pc = "done" =>
          \A p \in SrcNonDirs0 : Cardinality(CopyCalls(p)) = 1

\* A step can be taken whenever the call has neither returned nor raised
NeverStuck ==
    /\ pc = "dirs" => directories # <<>>
    /\ pc = "files" => files # <<>>
    /\ pc \in {"start", "walk", "dirs", "files", "done", "raised"}

\* C9: a symbolic link in the source tree is treated as a file (never
\* walked into, no directory created for it, copied exactly once), every
\* file and symbolic link is copied exactly once, and the call ends, also
\* when the links to directories form cycles.
C9_SymlinksAreFilesAndWalkEnds ==
    /\ [](SymlinksAreFiles /\ NeverStuck)
    /\ <>(pc \in Terminal)

\* The call returned on a source tree holding a link to the tree itself,
\* which was copied once
C9_Witness ==
    /\ pc = "done"
    /\ \E p \in SrcNonDirs0 :
          /\ fs0[p].kind = "link"
          /\ fs0[p].target = args.source_tree
          /\ Cardinality(CopyCalls(p)) = 1

\* C10: on return and on a raised error, every regular file of the source
\* tree is still there with its original content, also when the
\* destination is the source or lies inside it.  (TLC refutes this.)
C10_InputNeverDestroyed ==
    pc \in Terminal => \A p \in SrcFiles0 : Intact(p)

-----------------------------------------------------------------------------
(* link_or_copy(source, destination, follow_symlinks) called on its own,   *)
(* and the source file changed in place afterwards.                        *)

\* The source is s/a; the destination is an entry of d, the source itself,
\* or a path whose directory does not exist
LinkArgs ==
    {[source |-> join(S, <<"a">>), destination |-> d, follow_symlinks |-> f] :
        d \in {join(D, <<"a">>), join(D, <<"b">>), join(S, <<"a">>),
               join(Missing, <<"a">>)},
        f \in BOOLEAN}

LinkInit ==
    \E a \in LinkArgs, src \in Sources, dst \in Destinations :
        /\ args = a
        /\ fs = RootDir @@ src @@ dst
        /\ inodes = InodesOf(fs)
        /\ fs0 = fs
        /\ inodes0 = inodes
        /\ pc = "start"
        /\ err = ""
        /\ stack = <<>>
        /\ root = <<>>
        /\ directories = <<>>
        /\ files = <<>>
        /\ calls = <<>>
        /\ clock = 0

\* link_or_copy(source, destination, follow_symlinks) gave c
LinkDone(c) ==
    /\ Effect(c)
    /\ pc' = IF c.err = "" THEN "done" ELSE "raised"
    /\ calls' = Append(calls, Call("link_or_copy", args.source,
                                   args.destination,
                                   KindAt(fs, args.source), c.how))

\* Lines 91-131: one call of link_or_copy; the environment decides
\* whether the hard link is refused
LinkCall ==
    /\ Tick
    /\ pc = "start"
    /\ \E denied \in BOOLEAN :
          LinkDone(link_or_copy(World(fs, inodes), args.source,
                                args.destination, args.follow_symlinks,
                                denied))
    /\ UNCHANGED <<fs0, inodes0, args, stack, root, directories, files>>

\* The write gave c
LinkWritten(c) ==
    /\ c.err = ""
    /\ fs' = c.w.fs
    /\ inodes' = c.w.inodes

\* After the call, the source file is rewritten in place with content 0,
\* which no file held
LinkMutate ==
    /\ Tick
    /\ pc = "done"
    /\ TypeAt(fs, args.source) = "file"
    /\ LinkWritten(writefile(World(fs, inodes), args.source, 0))
    /\ pc' = "mutated"
    /\ UNCHANGED <<fs0, inodes0, args, err, stack, root, directories, files,
                   calls>>

LinkNext ==
    \/ LinkCall
    \/ LinkMutate

LinkSpec == LinkInit /\ [][LinkNext]_vars

\* The content os.lstat finds at a regular file, -1 for anything else
ContentFrom(r) ==
    IF r.err = "" /\ fs[r.path].kind = "file"
    THEN inodes[fs[r.path].ino].content ELSE -1

ContentAt(q) == ContentFrom(Stat(fs, q, FALSE))

\* C4: for a regular source file and a destination whose directory exists,
\* link_or_copy returns normally with the destination a file holding the
\* source's content; after a link, a later change of the source in place
\* shows through the destination, and after a copy it does not.  (TLC
\* refutes this: with the destination an existing directory the copy is
\* made inside it, and with the destination the source itself the source
\* is removed and FileNotFoundError raised.)
C4_LinkOrIndependentCopy ==
    (/\ pc # "start"
     /\ KindAt(fs0, args.source) = "file"
     /\ TypeAt(fs0, Front(args.destination)) = "dir")
    => /\ pc # "raised"
       /\ pc = "done" =>
             ContentAt(args.destination) = inodes0[fs0[args.source].ino].content
       /\ (pc = "mutated" /\ calls[1].how = "link") =>
             ContentAt(args.destination) = 0
       /\ (pc = "mutated" /\ calls[1].how = "copy") =>
             ContentAt(args.destination) = inodes0[fs0[args.source].ino].content

-----------------------------------------------------------------------------
(* search_and_replace_contents(file_path, search_pattern, replacement).    *)
(* A text is a sequence of characters; "?" is a byte that does not decode. *)
(* A search pattern is a literal, non-empty text.                          *)

\* The longest file content, and the longest pattern and replacement
MaxLen == 3
MaxPat == 2

\* The number of times search_and_replace_contents is applied to a file
MaxCalls == 2

ReadOnlyMode == "0444"

Texts(alphabet, n) == UNION {[1..k -> alphabet] : k \in 0..n}

\* f.read(): UnicodeDecodeError on a byte that does not decode
Decodable(content) == \A i \in DOMAIN content : content[i] # "?"

\* Whether search_pattern.search(text) finds a match
Matches(pat, text) ==
    \E i \in 1..(Len(text) - Len(pat) + 1) :
        SubSeq(text, i, i + Len(pat) - 1) = pat

\* search_pattern.sub(replacement, original): every non-overlapping match,
\* leftmost first, is replaced; the replacement is not searched again
RECURSIVE Sub(_, _, _)
Sub(pat, rep, text) ==
    IF Len(text) < Len(pat) THEN text
    ELSE IF SubSeq(text, 1, Len(pat)) = pat
         THEN rep \o Sub(pat, rep, SubSeq(text, Len(pat) + 1, Len(text)))
    ELSE <<Head(text)>> \o Sub(pat, rep, Tail(text))

\* The mistaken test that writes the file back whatever the result
AlwaysWrite(replaced, original) == TRUE

\* Line 81: the file is written back only if the content changed
ShouldWrite(replaced, original) == replaced # original

\* The mistaken handler that lets every error through
SuppressedNever(e) == FALSE

\* Line 85: the errors search_and_replace_contents logs and drops
Suppressed(e) == e = "PermissionError"

\* open(file_path, 'r+'): the error it raises, "" when the file opens
OpenRW(w, r) ==
    IF r.err # "" THEN r.err
    ELSE IF w.fs[r.path].kind = "dir" THEN "IsADirectoryError"
    ELSE IF w.inodes[w.fs[r.path].ino].mode = ReadOnlyMode
         THEN "PermissionError"
    ELSE ""

\* Lines 81-84: seek, truncate and write, if the content changed
SearchWrite(w, i, replaced, original) ==
    IF ShouldWrite(replaced, original) THEN Ok(Rewrite(w, i, replaced))
    ELSE Ok(w)

\* Lines 75-84, the file being open on inode i
SearchIn(w, i, search_pattern, replacement) ==
    IF ~Decodable(w.inodes[i].content) THEN Ok(w)
    ELSE SearchWrite(w, i,
                     Sub(search_pattern, replacement, w.inodes[i].content),
                     w.inodes[i].content)

\* Lines 73-87, open having given e
SearchOpened(w, r, e, search_pattern, replacement) ==
    IF e # "" THEN (IF Suppressed(e) THEN Ok(w) ELSE Fail(w, e))
    ELSE SearchIn(w, w.fs[r.path].ino, search_pattern, replacement)

SearchAt(w, r, search_pattern, replacement) ==
    SearchOpened(w, r, OpenRW(w, r), search_pattern, replacement)

\* search_and_replace_contents(file_path, search_pattern, replacement)
search_and_replace_contents(w, file_path, search_pattern, replacement) ==
    SearchAt(w, Stat(w.fs, file_path, TRUE), search_pattern, replacement)

\* The content of the file the path leads to, <<>> when there is none
TextFrom(w, r) ==
    IF r.err = "" /\ w.fs[r.path].kind = "file"
    THEN w.inodes[w.fs[r.path].ino].content ELSE <<>>

TextAt(w, file_path) == TextFrom(w, Stat(w.fs, file_path, TRUE))

\* The record of a call of search_and_replace_contents that gave c
SearchCall(c, file_path) ==
    [fn |-> "search_and_replace_contents", source |-> file_path,
     destination |-> <<>>, kind |-> KindAt(fs, file_path),
     how |-> IF c.w.inodes # inodes THEN "write" ELSE "",
     before |-> TextAt(World(fs, inodes), file_path),
     after |-> TextAt(c.w, file_path)]

T == <<"t">>
Other == <<"o">>

\* The file is t/a itself, or t/a is a symbolic link to it, or is missing
SearchTrees ==
    {(T :> DirN(DefaultDirMode)) @@ x :
        x \in {join(T, <<"a">>) :> FileN(1),
               (join(T, <<"a">>) :> LinkN(Other)) @@ (Other :> FileN(1)),
               Empty}}

SearchArgs ==
    {[file_path |-> join(T, <<"a">>), search_pattern |-> p, replacement |-> r] :
        p \in Texts({"x", "y"}, MaxPat) \ {<<>>},
        r \in Texts({"x", "y"}, MaxPat)}

SearchInit ==
    \E a \in SearchArgs, tree \in SearchTrees,
       content \in Texts({"x", "y", "?"}, MaxLen),
       mode \in {DefaultFileMode, ReadOnlyMode} :
        /\ args = a
        /\ fs = RootDir @@ tree
        /\ inodes = [i \in UsedInos(fs) |->
                        [content |-> content, mode |-> mode, writes |-> 0]]
        /\ fs0 = fs
        /\ inodes0 = inodes
        /\ pc = "start"
        /\ err = ""
        /\ stack = <<>>
        /\ root = <<>>
        /\ directories = <<>>
        /\ files = <<>>
        /\ calls = <<>>
        /\ clock = 0

\* search_and_replace_contents(file_path, ...) gave c
Searched(c, file_path) ==
    /\ Effect(c)
    /\ calls' = Append(calls, SearchCall(c, file_path))

\* Lines 64-88: one call of search_and_replace_contents on the file
SearchApply ==
    /\ Tick
    /\ pc \in {"start", "done"}
    /\ Len(calls) < MaxCalls
    /\ Searched(search_and_replace_contents(World(fs, inodes),
                    args.file_path, args.search_pattern, args.replacement),
                args.file_path)
    /\ pc' = IF err' = "" THEN "done" ELSE "raised"
    /\ UNCHANGED <<fs0, inodes0, args, stack, root, directories, files>>

SearchNext == SearchApply

SearchSpec == SearchInit /\ [][SearchNext]_vars

-----------------------------------------------------------------------------
(* replace_in_file(directory, file_pattern, search_pattern, replacement).  *)
(* The file pattern is the set of the file names it matches.               *)

\* The mistaken test that also rewrites through symbolic links
RewritesAll(f, file_path) == TRUE

\* Line 59: a symbolic link is not rewritten
Rewrites(f, file_path) == ~islink(f, file_path)

\* The file a content, a read-only file or a binary file
Readable == [content |-> <<"x", "y", "x">>, mode |-> DefaultFileMode, writes |-> 0]
Denied == [content |-> <<"x", "y", "x">>, mode |-> ReadOnlyMode, writes |-> 0]
Binary == [content |-> <<"x", "?">>, mode |-> DefaultFileMode, writes |-> 0]

\* The trees replace_in_file walks: t/a, t/b and t/n, and below a
\* directory t/a, t/a/a and t/a/b; o lies outside the walked directory
ReplaceTrees ==
    LET a == join(T, <<"a">>)
        b == join(T, <<"b">>)
        n == join(T, <<"n">>)
        aa == join(a, <<"a">>)
        ab == join(a, <<"b">>)
        below == {x @@ y : x \in {Empty, aa :> FileN(3), aa :> LinkN(n)},
                           y \in {Empty, ab :> FileN(6), ab :> LinkN(T)}}
        as == {Empty, a :> FileN(1), a :> LinkN(Other), a :> LinkN(n),
               a :> LinkN(Missing)}
                \cup {(a :> DirN(DefaultDirMode)) @@ x : x \in below}
        bs == {Empty, b :> FileN(2), b :> LinkN(a)}
        ns == {Empty, n :> FileN(5)}
    IN  {(T :> DirN(DefaultDirMode)) @@ (Other :> FileN(4)) @@ x @@ y @@ z :
            x \in as, y \in bs, z \in ns}

ReplaceArgs ==
    {[directory |-> d, file_pattern |-> m, search_pattern |-> <<"x">>,
      replacement |-> r] :
        d \in {T, Missing}, m \in {{"a", "b"}, {"a"}},
        r \in {<<>>, <<"y", "x">>}}

ReplaceInit ==
    \E a \in ReplaceArgs, tree \in ReplaceTrees,
       state \in [{1, 2, 3} -> {Readable, Denied, Binary}] :
        /\ args = a
        /\ fs = RootDir @@ tree
        /\ inodes = [i \in UsedInos(fs) |->
                        IF i \in DOMAIN state THEN state[i] ELSE Readable]
        /\ fs0 = fs
        /\ inodes0 = inodes
        /\ pc = "walk"
        /\ err = ""
        /\ stack = <<a.directory>>
        /\ root = <<>>
        /\ directories = <<>>
        /\ files = <<>>
        /\ calls = <<>>
        /\ clock = 0

\* Line 53: the next iteration of os.walk(directory)
ReplaceWalk ==
    /\ Tick
    /\ pc = "walk"
    /\ stack # <<>>
    /\ IF ~WalkEnters(fs, Head(stack), Head(stack) = args.directory)
       THEN /\ stack' = Tail(stack)
            /\ UNCHANGED <<pc, root, directories, files, calls>>
       ELSE \E ds \in Perms(WalkDirs(fs, Head(stack))),
               fl \in Perms(WalkNonDirs(fs, Head(stack))) :
               /\ root' = Head(stack)
               /\ directories' = ds
               /\ files' = fl
               /\ stack' = Paths(Head(stack), ds) \o Tail(stack)
               /\ pc' = TreePc(<<>>, fl)
               /\ calls' = Append(calls, Call("walk", Head(stack), <<>>,
                                              KindAt(fs, Head(stack)), ""))
    /\ UNCHANGED <<fs, inodes, fs0, inodes0, args, err>>

\* Lines 60-61: search_and_replace_contents(file_path, ...) gave c
Replaced(c, file_path) ==
    /\ Searched(c, file_path)
    /\ pc' = IF c.err = "" THEN TreePc(<<>>, Tail(files)) ELSE "raised"

\* Lines 55-61: the body of `for file_name in files` for file_path
ReplaceFileAt(file_name, file_path) ==
    IF file_name \in args.file_pattern /\ Rewrites(fs, file_path)
    THEN Replaced(search_and_replace_contents(World(fs, inodes), file_path,
                      args.search_pattern, args.replacement),
                  file_path)
    ELSE /\ pc' = TreePc(<<>>, Tail(files))
         /\ UNCHANGED <<fs, inodes, err, calls>>

\* Lines 54-61: one iteration of `for file_name in files`
ReplaceFile ==
    /\ Tick
    /\ pc = "files"
    /\ ReplaceFileAt(Head(files), join(root, <<Head(files)>>))
    /\ files' = Tail(files)
    /\ UNCHANGED <<fs0, inodes0, args, stack, root, directories>>

\* The walk is exhausted: replace_in_file returns
ReplaceReturn ==
    /\ Tick
    /\ pc = "walk"
    /\ stack = <<>>
    /\ pc' = "done"
    /\ UNCHANGED <<fs, inodes, fs0, inodes0, args, err, stack, root,
                   directories, files, calls>>

ReplaceNext ==
    \/ ReplaceWalk
    \/ ReplaceFile
    \/ ReplaceReturn

ReplaceSpec == ReplaceInit /\ [][ReplaceNext]_vars

\* The entries of the walked directory that are regular files with a
\* matching name, before the call
MatchingFiles0 ==
    {p \in Below(args.directory, fs0) :
        fs0[p].kind = "file" /\ Last(p) \in args.file_pattern}

\* The file of inode n is binary, or may not be opened for writing
Failing(n) == ~Decodable(n.content) \/ n.mode = ReadOnlyMode

\* The positions in `calls` of the calls of search_and_replace_contents
\* on p
SearchCalls(p) ==
    {i \in DOMAIN calls :
        calls[i].fn = "search_and_replace_contents" /\ calls[i].source = p}

\* C6: replace_in_file raises nothing; a matching file that is binary or
\* cannot be opened for writing keeps its content; and when the call has
\* returned every matching regular file was processed once, each of the
\* others holding its content with the pattern replaced.
C6_FailuresDoNotStopThePass ==
    /\ pc # "raised"
    /\ \A p \in MatchingFiles0 :
          Failing(inodes0[fs0[p].ino]) =>
              inodes[fs0[p].ino] = inodes0[fs0[p].ino]
    /\ pc = "done" =>
          \A p \in MatchingFiles0 :
              /\ Cardinality(SearchCalls(p)) = 1
              /\ ~Failing(inodes0[fs0[p].ino]) =>
                     inodes[fs0[p].ino].content =
                         Sub(args.search_pattern, args.replacement,
                             inodes0[fs0[p].ino].content)

\* The call returned after a failing file was met first and another
\* matching file rewritten after it
C6_Witness ==
    /\ pc = "done"
    /\ \E p, q \in MatchingFiles0 :
          /\ Failing(inodes0[fs0[p].ino])
          /\ ~Failing(inodes0[fs0[q].ino])
          /\ inodes[fs0[q].ino].writes = 1
          /\ \E i \in SearchCalls(p), j \in SearchCalls(q) : i < j

\* C7: search_and_replace_contents is never called on a symbolic link,
\* and a file that is no matching regular file of the walked tree itself
\* (so can only be reached through a link) is never changed.
C7_NeverThroughASymlink ==
    /\ \A i \in DOMAIN calls :
          calls[i].fn = "search_and_replace_contents" =>
              calls[i].kind # "link"
    /\ \A i \in DOMAIN inodes0 :
          i \notin {fs0[p].ino : p \in MatchingFiles0} =>
              inodes[i] = inodes0[i]

\* The call returned on a tree with a matching symbolic link to a file
\* outside the tree that holds the pattern, having rewritten another file
C7_Witness ==
    /\ pc = "done"
    /\ \E p \in Below(args.directory, fs0) :
          /\ fs0[p].kind = "link"
          /\ Last(p) \in args.file_pattern
          /\ fs0[p].target = Other
          /\ Matches(args.search_pattern, inodes0[fs0[Other].ino].content)
          /\ inodes[fs0[Other].ino] = inodes0[fs0[Other].ino]
    /\ \E i \in DOMAIN calls : calls[i].how = "write"

-----------------------------------------------------------------------------
(* with requires_command_success(command): <guarded region>.               *)
(* A command is a text; the programs on the PATH are the files of bin,     *)
(* whose names are one letter long and whose content is their exit status. *)

\* The longest command
MaxCmd == 3

Bin == <<"bin">>
ExecMode == "0755"

\* Line 212: command.split(), the words between runs of blanks; `word` is
\* the word being read and `acc` the words read
RECURSIVE SplitFrom(_, _, _)
SplitFrom(text, word, acc) ==
    IF text = <<>> THEN (IF word = <<>> THEN acc ELSE Append(acc, word))
    ELSE IF Head(text) = " "
         THEN SplitFrom(Tail(text), <<>>,
                        IF word = <<>> THEN acc ELSE Append(acc, word))
    ELSE SplitFrom(Tail(text), Append(word, Head(text)), acc)

split(text) == SplitFrom(text, <<>>, <<>>)

\* The program found at r is run: CalledProcessError unless it exits 0
RunAt(w, r) ==
    IF r.err # "" THEN "FileNotFoundError"
    ELSE IF w.fs[r.path].kind # "file" THEN "PermissionError"
    ELSE IF w.inodes[w.fs[r.path].ino].mode # ExecMode THEN "PermissionError"
    ELSE IF w.inodes[w.fs[r.path].ino].content # 0 THEN "CalledProcessError"
    ELSE ""

\* The search of the PATH for the program `name`
Which(w, name) ==
    IF Len(name) = 1 THEN Stat(w.fs, join(Bin, <<name[1]>>), TRUE)
    ELSE [err |-> "FileNotFoundError", path |-> <<>>]

\* Lines 217-218: subprocess.check_call(cmd_list), the error it raises or
\* ""; an empty list has no program to name
check_call(w, cmd_list) ==
    IF cmd_list = <<>> THEN "IndexError"
    ELSE RunAt(w, Which(w, cmd_list[1]))

\* Lines 219-226: the error the context manager turns that of check_call
\* into
Required(e) ==
    IF e = "FileNotFoundError" THEN "RequiredCommandNotFound"
    ELSE IF e = "CalledProcessError" THEN "RequiredCommandFailure"
    ELSE e

\* The programs: t exits 0, f exits 1, n is not executable, m is missing
CmdTrees ==
    {(Bin :> DirN(DefaultDirMode)) @@ (join(Bin, <<"t">>) :> FileN(1))
        @@ (join(Bin, <<"f">>) :> FileN(2)) @@ (join(Bin, <<"n">>) :> FileN(3))}

CmdInodes ==
    (1 :> [content |-> 0, mode |-> ExecMode, writes |-> 0])
    @@ (2 :> [content |-> 1, mode |-> ExecMode, writes |-> 0])
    @@ (3 :> [content |-> 0, mode |-> DefaultFileMode, writes |-> 0])

\* A command is a text, or something that is no str (a list of words)
CmdArgs ==
    {[command |-> [str |-> TRUE, text |-> c]] :
        c \in Texts({"t", "f", "n", "m", " "}, MaxCmd)}
    \cup {[command |-> [str |-> FALSE, text |-> <<"t">>]]}

CmdInit ==
    \E a \in CmdArgs, tree \in CmdTrees :
        /\ args = a
        /\ fs = RootDir @@ tree
        /\ inodes = CmdInodes
        /\ fs0 = fs
        /\ inodes0 = inodes
        /\ pc = "start"
        /\ err = ""
        /\ stack = <<>>
        /\ root = <<>>
        /\ directories = <<>>
        /\ files = <<>>
        /\ calls = <<>>
        /\ clock = 0

\* Lines 216-226: check_call(cmd_list) gave e
CmdChecked(cmd_list, e) ==
    /\ calls' = Append(calls, [fn |-> "check_call", cmd_list |-> cmd_list,
                               err |-> e])
    /\ err' = Required(e)
    /\ pc' = IF e = "" THEN "yield" ELSE "raised"

\* Lines 211-227: the context is entered, up to the yield
CmdEnter ==
    /\ Tick
    /\ pc = "start"
    /\ IF args.command.str
       THEN CmdChecked(split(args.command.text),
                       check_call(World(fs, inodes),
                                  split(args.command.text)))
       ELSE /\ pc' = "raised"
            /\ err' = "TypeError"
            /\ calls' = calls
    /\ UNCHANGED <<fs, inodes, fs0, inodes0, args, stack, root,
                   directories, files>>

\* Line 227: the guarded region runs
CmdBody ==
    /\ Tick
    /\ pc = "yield"
    /\ pc' = "body"
    /\ calls' = Append(calls, [fn |-> "body", cmd_list |-> <<>>, err |-> ""])
    /\ UNCHANGED <<fs, inodes, fs0, inodes0, args, err, stack, root,
                   directories, files>>

\* The context is left: the generator ends after its yield
CmdExit ==
    /\ Tick
    /\ pc = "body"
    /\ pc' = "done"
    /\ UNCHANGED <<fs, inodes, fs0, inodes0, args, err, stack, root,
                   directories, files, calls>>

CmdNext ==
    \/ CmdEnter
    \/ CmdBody
    \/ CmdExit

CmdSpec == CmdInit /\ [][CmdNext]_vars

\* The positions in `calls` of the calls of fn
CallsOf(fn) == {i \in DOMAIN calls : calls[i].fn = fn}

\* C8: for a string command, the guarded region is entered at most once
\* and only after a single run of the command that exited 0, and the only
\* errors raised are RequiredCommandNotFound and RequiredCommandFailure,
\* without the region being entered.  (TLC refutes this: a command of
\* blanks raises IndexError, a file that is not executable
\* PermissionError.)
C8_OnlyThreeOutcomes ==
    args.command.str =>
        /\ Cardinality(CallsOf("body")) <= 1
        /\ CallsOf("body") # {} =>
              /\ Cardinality(CallsOf("check_call")) = 1
              /\ calls[1].fn = "check_call" /\ calls[1].err = ""
        /\ pc = "raised" =>
              /\ err \in {"RequiredCommandNotFound", "RequiredCommandFailure"}
              /\ CallsOf("body") = {}

====
